---- MODULE Spec2Model ----
(***************************************************************************)
(* Model of the seat-allocation and booking-commit engine of the movie     *)
(* booking API (src/main.py): the tables movies/theaters/halls/shows/      *)
(* bookings, the global threading.Lock, and the request handler            *)
(* book_seats with its helpers get_booked_seats, find_seats and            *)
(* find_other_shows.  Each worker thread runs book_seats; its position in  *)
(* the handler is pc[p].  The read-only routes get_booking and hall_layout *)
(* answer in one step.                                                     *)
(***************************************************************************)
EXTENDS Integers, Sequences, FiniteSets, TLC

(***************************************************************************)
(* Bounds of the model.                                                    *)
(***************************************************************************)
\* number of worker threads serving POST /bookings concurrently
NumProcs == 2
\* requests are admitted while bookings + requests in flight stay below this
MaxBookings == 3
\* largest row capacity and seat number of the inputs find_seats is applied to
\* on its own (specification SpecFind)
FsMaxSeat == 3

Procs == 1..NumProcs

(***************************************************************************)
(* Strings.  A show time such as '2024-12-01 14:30' is a sequence of       *)
(* characters: the date characters, a blank, the time-of-day characters.   *)
(***************************************************************************)
Space == " "

\* s[i..] (Python s[i-1:])
Drop(s, n) == SubSeq(s, n + 1, Len(s))

\* the number of leading characters of s that are blanks (blank = TRUE) or
\* non-blanks (blank = FALSE)
RECURSIVE Run(_, _)
Run(s, blank) ==
  IF s = << >> \/ ((Head(s) = Space) # blank) THEN 0
  ELSE 1 + Run(Tail(s), blank)

\* str.split()[0]: the first maximal run of non-blank characters
\* (IndexError when there is none, modelled by the empty string: no show
\* time of the catalogues below is blank)
FirstWord(s) ==
  LET t == Drop(s, Run(s, TRUE))
  IN  SubSeq(t, 1, Run(t, FALSE))

\* mutant: the time is not compared with the date
LikeAnything(x, prefix) == TRUE

\* SQL  x LIKE 'prefix%'  for a prefix without wildcard characters
Like(x, prefix) ==
  /\ Len(prefix) <= Len(x)
  /\ SubSeq(x, 1, Len(prefix)) = prefix

(***************************************************************************)
(* State.                                                                  *)
(***************************************************************************)
VARIABLES
  movies,     \* table movies: id -> [title, price]
  theaters,   \* table theaters: id -> [name]
  halls,      \* table halls: id -> [theater_id, rows]
  shows,      \* table shows: id -> [movie_id, hall_id, time]
  bookings,   \* table bookings: id -> [show_id, ref, seats, amount, size]
  lock,       \* threading.Lock(): TRUE when held
  pc,         \* per thread: position in book_seats
  req,        \* per thread: the BookingRequest being served
  show,       \* per thread: id of the show resolved by the first query
  seats,      \* per thread: result of find_seats
  result,     \* per thread: the response (or HTTPException) produced
  fs,         \* one application of find_seats on its own: arguments and value
  read        \* the last response of a read-only route (get_booking, hall_layout)

vars ==
  <<movies, theaters, halls, shows, bookings, lock, pc, req, show, seats, result, fs, read>>
catalog == <<movies, theaters, halls, shows>>

(***************************************************************************)
(* get_booked_seats: the set of (row, seat) of all bookings of a show.     *)
(* The seats column holds json.dumps of a list of {"row", "seat"} dicts of *)
(* ints, which json.loads gives back unchanged; the list is kept as is.    *)
(***************************************************************************)
SeatPairs(seat_list) ==
  { <<seat_list[i].row, seat_list[i].seat>> : i \in DOMAIN seat_list }

\* mutant: only the first seat of each booking is added to the set
get_booked_seats_first(table, show_id) ==
  { <<table[b].seats[1].row, table[b].seats[1].seat>> :
      b \in { b \in DOMAIN table : table[b].show_id = show_id /\ table[b].seats # << >> } }

get_booked_seats(table, show_id) ==
  UNION { SeatPairs(table[b].seats) :
            b \in { b \in DOMAIN table : table[b].show_id = show_id } }

(***************************************************************************)
(* find_seats: first fit, rows in order, start seats in order.  The value  *)
(* is a list of seats or None; [found |-> FALSE] stands for None.          *)
(***************************************************************************)
NoneSeats == [found |-> FALSE, seats |-> << >>]
SomeSeats(seat_list) == [found |-> TRUE, seats |-> seat_list]

\* Python truthiness of the value of find_seats: None and [] are false
Truthy(found_seats) == found_seats.found /\ found_seats.seats # << >>

\* mutant: the last start seat of a row is never tried
StartStopShort(total_seats, size) == total_seats - size + 1

\* for start in range(1, total_seats - size + 2): the exclusive upper end
StartStop(total_seats, size) == total_seats - size + 2

\* the inner loop: seats start .. start+size-1 of the row, ok iff none is booked
BlockFree(row_num, start, size, booked) ==
  \A i \in 0..(size - 1) : <<row_num, start + i>> \notin booked

\* mutant: the seats are listed from the last to the first
BlockReversed(row_num, start, size) ==
  [i \in 1..size |-> [row |-> row_num, seat |-> start + size - i]]

Block(row_num, start, size) ==
  [i \in 1..size |-> [row |-> row_num, seat |-> start + i - 1]]

RECURSIVE ScanStarts(_, _, _, _, _)
ScanStarts(row_num, total_seats, booked, size, start) ==
  IF start >= StartStop(total_seats, size) THEN NoneSeats
  ELSE IF BlockFree(row_num, start, size, booked)
       THEN SomeSeats(Block(row_num, start, size))
       ELSE ScanStarts(row_num, total_seats, booked, size, start + 1)

\* mutant: every other row is skipped
NextRowSkip(row_idx) == row_idx + 2

\* the row visited after row_idx (0-based, as enumerate gives it)
NextRow(row_idx) == row_idx + 1

RECURSIVE ScanRows(_, _, _, _)
ScanRows(rows, booked, size, row_idx) ==
  IF row_idx >= Len(rows) THEN NoneSeats
  ELSE LET r == ScanStarts(row_idx + 1, rows[row_idx + 1], booked, size, 1)
       IN  IF r.found THEN r ELSE ScanRows(rows, booked, size, NextRow(row_idx))

find_seats(rows, booked, size) == ScanRows(rows, booked, size, 0)

(***************************************************************************)
(* The queries.  Both join shows with movies, halls and theaters, so a     *)
(* show is only seen when the rows it refers to exist.                     *)
(***************************************************************************)
Joined(s) ==
  /\ shows[s].movie_id \in DOMAIN movies
  /\ shows[s].hall_id \in DOMAIN halls
  /\ halls[shows[s].hall_id].theater_id \in DOMAIN theaters

TheaterOf(s) == halls[shows[s].hall_id].theater_id

\* mutant: the rows of the newest hall are taken for every show
RowsOfNewestHall(s) == halls[Len(halls)].rows

RowsOf(s) == halls[shows[s].hall_id].rows
PriceOf(s) == movies[shows[s].movie_id].price

\* mutant: the theater of the request is not compared
MatchingShowsAnyTheater(r) ==
  { s \in DOMAIN shows :
      /\ Joined(s)
      /\ shows[s].movie_id = r.movie_id
      /\ shows[s].time = r.show_time }

\* WHERE s.movie_id = ? AND s.time = ? AND t.id = ?
MatchingShows(r) ==
  { s \in DOMAIN shows :
      /\ Joined(s)
      /\ shows[s].movie_id = r.movie_id
      /\ shows[s].time = r.show_time
      /\ TheaterOf(s) = r.theater_id }

\* WHERE s.movie_id = ? AND s.time LIKE 'date%'
DateOf(r) == FirstWord(r.show_time)

Candidate(s, r) ==
  /\ Joined(s)
  /\ shows[s].movie_id = r.movie_id
  /\ Like(shows[s].time, DateOf(r))

\* the rows of the query come in rowid order (shows is the scanned table)
RECURSIVE Collect(_, _, _)
Collect(s, r, table) ==
  IF s > Len(shows) THEN << >>
  ELSE IF /\ Candidate(s, r)
          /\ Truthy(find_seats(RowsOf(s), get_booked_seats(table, s), r.group_size))
       THEN <<[show_id |-> s, movie |-> movies[shows[s].movie_id].title,
               theater |-> theaters[TheaterOf(s)].name, time |-> shows[s].time]>>
            \o Collect(s + 1, r, table)
       ELSE Collect(s + 1, r, table)

\* alternatives[:3]
AltCap == 3

\* mutant: the list is returned whole
CutNothing(list) == list

Cut(list) == SubSeq(list, 1, IF Len(list) < AltCap THEN Len(list) ELSE AltCap)

\* mutant: the shows are taken in descending id order
find_other_shows_descending(table, r) ==
  LET list == Collect(1, r, table)
  IN  Cut([i \in 1..Len(list) |-> list[Len(list) + 1 - i]])

find_other_shows(table, r) == Cut(Collect(1, r, table))

(***************************************************************************)
(* Catalogues.  The movies and theaters are the sample data; halls and     *)
(* shows are rows that POST /halls and POST /shows accept (every row of a  *)
(* hall has at least 6 seats).  Show times have the sample data's layout   *)
(* 'date time', with dates of one width.                                   *)
(***************************************************************************)
T(d1, d2, t) == <<d1, d2, Space, t>>

Movies0 ==
  << [title |-> "Avengers", price |-> 250],
     [title |-> "Spider-Man", price |-> 200] >>

Theaters0 ==
  << [name |-> "PVR Mall"], [name |-> "INOX Center"] >>

\* the catalogue of Spec: two shows of one movie at one time in two
\* theaters, and a show of the other movie in the second
HallsA ==
  << [theater_id |-> 1, rows |-> <<6>>],
     [theater_id |-> 2, rows |-> <<6, 6>>] >>

ShowsA ==
  << [movie_id |-> 1, hall_id |-> 1, time |-> T("0", "1", "a")],
     [movie_id |-> 1, hall_id |-> 2, time |-> T("0", "1", "a")],
     [movie_id |-> 2, hall_id |-> 2, time |-> T("0", "1", "a")] >>

\* the catalogue of SpecAlt: six shows of movie 1 on date 01 (shows 1 and 7,
\* and shows 2 and 8, in the same theater at the same time), between them a
\* show of movie 2 and a show of movie 1 on date 02
HallsB ==
  << [theater_id |-> 1, rows |-> <<6>>],
     [theater_id |-> 2, rows |-> <<6>>],
     [theater_id |-> 1, rows |-> <<6>>] >>

ShowsB ==
  << [movie_id |-> 1, hall_id |-> 1, time |-> T("0", "1", "a")],
     [movie_id |-> 1, hall_id |-> 1, time |-> T("0", "1", "b")],
     [movie_id |-> 2, hall_id |-> 2, time |-> T("0", "1", "a")],
     [movie_id |-> 1, hall_id |-> 2, time |-> T("0", "1", "a")],
     [movie_id |-> 1, hall_id |-> 1, time |-> T("0", "2", "a")],
     [movie_id |-> 1, hall_id |-> 2, time |-> T("0", "1", "b")],
     [movie_id |-> 1, hall_id |-> 3, time |-> T("0", "1", "a")],
     [movie_id |-> 1, hall_id |-> 3, time |-> T("0", "1", "b")] >>

(***************************************************************************)
(* Requests: the fields of BookingRequest.                                 *)
(***************************************************************************)
Requests ==
  [movie_id : {1, 2}, show_time : {T("0", "1", "a")}, theater_id : {1, 2},
   group_size : {-1, 0, 4, 7}]

AltRequests ==
  [movie_id : {1},
   show_time : {T("0", "1", "a"), T("0", "1", "b"), T("0", "2", "a")},
   theater_id : {1, 2}, group_size : {6}]

\* reference codes: str(uuid.uuid4())[:8].upper(), 8 random hex digits
Refs == {"0A1B2C3D", "4E5F6A7B"}

NoReq == [movie_id |-> 0, show_time |-> << >>, theater_id |-> 0, group_size |-> 0]
NoShow == 0
NoResult == [kind |-> "None"]
NoFs == [rows |-> << >>, booked |-> {}, size |-> 0, done |-> FALSE, ret |-> NoneSeats]
NoRead == [kind |-> "None"]

Idle ==
  /\ read = NoRead
  /\ bookings = << >>
  /\ lock = FALSE
  /\ pc = [p \in Procs |-> "idle"]
  /\ req = [p \in Procs |-> NoReq]
  /\ show = [p \in Procs |-> NoShow]
  /\ seats = [p \in Procs |-> NoneSeats]
  /\ result = [p \in Procs |-> NoResult]

Init ==
  /\ movies = Movies0
  /\ theaters = Theaters0
  /\ halls = HallsA
  /\ shows = ShowsA
  /\ Idle
  /\ fs = NoFs

InitAlt ==
  /\ movies = Movies0
  /\ theaters = Theaters0
  /\ halls = HallsB
  /\ shows = ShowsB
  /\ Idle
  /\ fs = NoFs

(***************************************************************************)
(* book_seats, step by step.                                               *)
(***************************************************************************)
InFlight == { p \in Procs : pc[p] # "idle" }

\* a request arrives and its thread reaches `with lock:`
Call(p, r) ==
  /\ pc[p] = "idle"
  /\ Len(bookings) + Cardinality(InFlight) < MaxBookings
  /\ pc' = [pc EXCEPT ![p] = "lock"]
  /\ req' = [req EXCEPT ![p] = r]
  /\ UNCHANGED <<catalog, bookings, lock, show, seats, result, fs, read>>

\* mutant: the lock never blocks
LockAlwaysFree == TRUE

\* threading.Lock.acquire: blocks while the lock is held
LockFree == lock = FALSE

Acquire(p) ==
  /\ pc[p] = "lock"
  /\ LockFree
  /\ lock' = TRUE
  /\ pc' = [pc EXCEPT ![p] = "find_show"]
  /\ UNCHANGED <<catalog, bookings, req, show, seats, result, fs, read>>

\* the first query and fetchone(); raise HTTPException(404) when no row.
\* The query has no ORDER BY: with several matching rows any may come first.
FindShow(p) ==
  /\ pc[p] = "find_show"
  /\ IF MatchingShows(req[p]) = {}
     THEN /\ result' = [result EXCEPT ![p] = [kind |-> "ShowNotFound", status |-> 404]]
          /\ pc' = [pc EXCEPT ![p] = "exit"]
          /\ UNCHANGED show
     ELSE /\ \E s \in MatchingShows(req[p]) : show' = [show EXCEPT ![p] = s]
          /\ pc' = [pc EXCEPT ![p] = "find_seats"]
          /\ UNCHANGED result
  /\ UNCHANGED <<catalog, bookings, lock, req, seats, fs, read>>

\* mutant: the bookings of the show are not read
BookedOfNoShow(p) == get_booked_seats(bookings, NoShow)

\* rows, booked = get_booked_seats(...), seats = find_seats(...); if not seats
Booked(p) == get_booked_seats(bookings, show[p])

\* mutant: `with lock:` ends before the search for alternatives
FindSeatsThenUnlock(p) ==
  /\ pc[p] = "find_seats"
  /\ LET found == find_seats(RowsOf(show[p]), Booked(p), req[p].group_size)
     IN  /\ seats' = [seats EXCEPT ![p] = found]
         /\ pc' = [pc EXCEPT ![p] = IF Truthy(found) THEN "create" ELSE "alternatives"]
         /\ lock' = Truthy(found)
  /\ UNCHANGED <<catalog, bookings, req, show, result, fs, read>>

FindSeats(p) ==
  /\ pc[p] = "find_seats"
  /\ LET found == find_seats(RowsOf(show[p]), Booked(p), req[p].group_size)
     IN  /\ seats' = [seats EXCEPT ![p] = found]
         /\ pc' = [pc EXCEPT ![p] = IF Truthy(found) THEN "create" ELSE "alternatives"]
  /\ UNCHANGED <<catalog, bookings, lock, req, show, result, fs, read>>

\* mutant: the failing request deletes the newest booking
AlternativesDroppingBooking(p) ==
  /\ pc[p] = "alternatives"
  /\ result' = [result EXCEPT ![p] =
                  [kind |-> "NoSeatsAvailable", status |-> 400,
                   alternatives |-> find_other_shows(bookings, req[p])]]
  /\ pc' = [pc EXCEPT ![p] = "exit"]
  /\ bookings' = SubSeq(bookings, 1, Len(bookings) - 1)
  /\ UNCHANGED <<catalog, lock, req, show, seats, fs, read>>

\* alternatives = find_other_shows(conn, booking); raise HTTPException(400, ...)
Alternatives(p) ==
  /\ pc[p] = "alternatives"
  /\ result' = [result EXCEPT ![p] =
                  [kind |-> "NoSeatsAvailable", status |-> 400,
                   alternatives |-> find_other_shows(bookings, req[p])]]
  /\ pc' = [pc EXCEPT ![p] = "exit"]
  /\ UNCHANGED <<catalog, bookings, lock, req, show, seats, fs, read>>

\* mutant: the price of one seat is charged
AmountOfOne(size, price) == price

\* amount = booking.group_size * show["price"]
Amount(size, price) == size * price

\* mutant: INSERT OR REPLACE keyed by ref, a booking with the same reference
\* is overwritten
CreateReplacing(p) ==
  /\ pc[p] = "create"
  /\ \E ref \in Refs :
       LET amount == Amount(req[p].group_size, PriceOf(show[p]))
           row == [show_id |-> show[p], ref |-> ref, seats |-> seats[p].seats,
                   amount |-> amount, size |-> req[p].group_size]
           same == { b \in DOMAIN bookings : bookings[b].ref = ref }
       IN  /\ bookings' = IF same = {} THEN Append(bookings, row)
                          ELSE [b \in DOMAIN bookings |-> IF b \in same THEN row ELSE bookings[b]]
           /\ result' = [result EXCEPT ![p] =
                           [kind |-> "Ok", status |-> 200, booking_ref |-> ref,
                            movie |-> movies[shows[show[p]].movie_id].title,
                            theater |-> theaters[TheaterOf(show[p])].name,
                            time |-> shows[show[p]].time,
                            seats |-> seats[p].seats, amount |-> amount]]
  /\ pc' = [pc EXCEPT ![p] = "exit"]
  /\ UNCHANGED <<catalog, lock, req, show, seats, fs, read>>

\* ref, amount, INSERT INTO bookings, commit, and the response
Create(p) ==
  /\ pc[p] = "create"
  /\ \E ref \in Refs :
       LET amount == Amount(req[p].group_size, PriceOf(show[p]))
       IN  /\ bookings' = Append(bookings,
                            [show_id |-> show[p], ref |-> ref, seats |-> seats[p].seats,
                             amount |-> amount, size |-> req[p].group_size])
           /\ result' = [result EXCEPT ![p] =
                           [kind |-> "Ok", status |-> 200, booking_ref |-> ref,
                            movie |-> movies[shows[show[p]].movie_id].title,
                            theater |-> theaters[TheaterOf(show[p])].name,
                            time |-> shows[show[p]].time,
                            seats |-> seats[p].seats, amount |-> amount]]
  /\ pc' = [pc EXCEPT ![p] = "exit"]
  /\ UNCHANGED <<catalog, lock, req, show, seats, fs, read>>

\* mutant: the lock stays held when the request leaves
ReleaseKeepingLock(p) ==
  /\ pc[p] = "exit"
  /\ pc' = [pc EXCEPT ![p] = "idle"]
  /\ req' = [req EXCEPT ![p] = NoReq]
  /\ show' = [show EXCEPT ![p] = NoShow]
  /\ seats' = [seats EXCEPT ![p] = NoneSeats]
  /\ result' = [result EXCEPT ![p] = NoResult]
  /\ UNCHANGED <<catalog, bookings, lock, fs, read>>

\* leaving `with lock:` by return or by exception releases the lock; the
\* response goes to the client and the thread is free for the next request
Release(p) ==
  /\ pc[p] = "exit"
  /\ lock' = FALSE
  /\ pc' = [pc EXCEPT ![p] = "idle"]
  /\ req' = [req EXCEPT ![p] = NoReq]
  /\ show' = [show EXCEPT ![p] = NoShow]
  /\ seats' = [seats EXCEPT ![p] = NoneSeats]
  /\ result' = [result EXCEPT ![p] = NoResult]
  /\ UNCHANGED <<catalog, bookings, fs, read>>

Step(p) ==
  \/ Acquire(p)
  \/ FindShow(p)
  \/ FindSeats(p)
  \/ Alternatives(p)
  \/ Create(p)
  \/ Release(p)

Next ==
  \E p \in Procs :
    \/ \E r \in Requests : Call(p, r)
    \/ Step(p)

NextAlt ==
  \E p \in Procs :
    \/ \E r \in AltRequests : Call(p, r)
    \/ Step(p)

Spec == Init /\ [][Next]_vars

SpecAlt == InitAlt /\ [][NextAlt]_vars

(***************************************************************************)
(* A sqlite3 error (database locked, disk full, ...) raised by a statement *)
(* inside `with lock:`, the INSERT and the commit included.  The exception *)
(* leaves the block, nothing was committed, the connection is dropped and  *)
(* the client gets a 500 response.                                         *)
(***************************************************************************)
\* mutant: the row inserted before the error stays in the table
StorageErrorAfterInsert(p) ==
  /\ pc[p] \in {"find_show", "find_seats", "alternatives", "create"}
  /\ result' = [result EXCEPT ![p] = [kind |-> "StorageFailure", status |-> 500]]
  /\ pc' = [pc EXCEPT ![p] = "exit"]
  /\ bookings' =
       IF pc[p] = "create"
       THEN Append(bookings,
              [show_id |-> show[p], ref |-> CHOOSE ref \in Refs : TRUE,
               seats |-> seats[p].seats,
               amount |-> Amount(req[p].group_size, PriceOf(show[p])),
               size |-> req[p].group_size])
       ELSE bookings
  /\ UNCHANGED <<catalog, lock, req, show, seats, fs, read>>

StorageError(p) ==
  /\ pc[p] \in {"find_show", "find_seats", "alternatives", "create"}
  /\ result' = [result EXCEPT ![p] = [kind |-> "StorageFailure", status |-> 500]]
  /\ pc' = [pc EXCEPT ![p] = "exit"]
  /\ UNCHANGED <<catalog, bookings, lock, req, show, seats, fs, read>>

(***************************************************************************)
(* get_booking: the joined rows with b.ref = ?, fetchone().  The bookings  *)
(* table has no index on ref, so the rows come in rowid order.             *)
(***************************************************************************)
RowsOfRef(table, ref) ==
  { b \in DOMAIN table : table[b].ref = ref /\ Joined(table[b].show_id) }

FetchOne(ids) == CHOOSE b \in ids : \A c \in ids : b <= c

get_booking(table, ref) ==
  IF RowsOfRef(table, ref) = {}
  THEN [kind |-> "NotFound", status |-> 404]
  ELSE LET booking == table[FetchOne(RowsOfRef(table, ref))]
       IN  [kind |-> "Booking", status |-> 200, ref |-> booking.ref,
            movie |-> movies[shows[booking.show_id].movie_id].title,
            theater |-> theaters[TheaterOf(booking.show_id)].name,
            time |-> shows[booking.show_id].time,
            seats |-> booking.seats, amount |-> booking.amount]

GetBooking(ref) ==
  /\ read' = [route |-> "get_booking", ref |-> ref, response |-> get_booking(bookings, ref)]
  /\ UNCHANGED <<catalog, bookings, lock, pc, req, show, seats, result, fs>>

(***************************************************************************)
(* hall_layout: the seats of a hall, flagged with the bookings of show_id  *)
(* (none when show_id is missing or 0), and the number of booked seats.    *)
(***************************************************************************)
Column(seat_num) == (seat_num - 1) \div 2 + 1

hall_layout(table, hall_id, show_id) ==
  IF hall_id \notin DOMAIN halls
  THEN [kind |-> "HallNotFound", status |-> 404]
  ELSE LET rows == halls[hall_id].rows
           booked == IF show_id # 0 THEN get_booked_seats(table, show_id) ELSE {}
       IN  [kind |-> "Layout", status |-> 200, hall_id |-> hall_id,
            layout |-> [r \in 1..Len(rows) |->
                          [row |-> r,
                           seats |-> [n \in 1..rows[r] |->
                                        [seat |-> n, column |-> Column(n),
                                         booked |-> <<r, n>> \in booked]]]],
            booked_count |-> Cardinality(booked)]

HallLayout(hall_id, show_id) ==
  /\ read' = [route |-> "hall_layout", hall_id |-> hall_id, show_id |-> show_id,
              response |-> hall_layout(bookings, hall_id, show_id)]
  /\ UNCHANGED <<catalog, bookings, lock, pc, req, show, seats, result, fs>>

(***************************************************************************)
(* All the routes together: bookings, storage errors and the two read-only *)
(* routes, on the catalogue of Init.                                       *)
(***************************************************************************)
OpsRequests ==
  { [movie_id |-> m, show_time |-> T("0", "1", "a"), theater_id |-> t, group_size |-> 4] :
      <<m, t>> \in {<<1, 1>>, <<1, 2>>, <<2, 1>>} }

\* (hall_id, show_id) asked for: a show in its hall, no show_id (0), a show
\* of another hall, a hall that does not exist
LayoutQueries == {<<2, 2>>, <<2, 0>>, <<1, 2>>, <<Len(HallsA) + 1, 1>>}

NextOps ==
  \/ \E p \in Procs :
       \/ \E r \in OpsRequests : Call(p, r)
       \/ Step(p)
       \/ StorageError(p)
  \/ \E ref \in Refs : GetBooking(ref)
  \/ \E q \in LayoutQueries : HallLayout(q[1], q[2])

SpecOps == Init /\ [][NextOps]_vars

(***************************************************************************)
(* Fair scheduling of the worker threads: a thread inside `with lock:`     *)
(* keeps running (every statement there returns or raises), and a thread   *)
(* blocked in lock.acquire() gets the lock if it is released again and     *)
(* again.  threading.Lock keeps no queue of the waiting threads, so the    *)
(* second is a condition on the scheduler, not a property of the lock.     *)
(***************************************************************************)
Progress(p) ==
  \/ FindShow(p)
  \/ FindSeats(p)
  \/ Alternatives(p)
  \/ Create(p)
  \/ Release(p)

Fairness ==
  \A p \in Procs : SF_vars(Acquire(p)) /\ WF_vars(Progress(p))

NextLive ==
  \E p \in Procs :
    \/ \E r \in OpsRequests : Call(p, r)
    \/ Step(p)
    \/ StorageError(p)

SpecLive == Init /\ [][NextLive]_vars /\ Fairness

(***************************************************************************)
(* A burst: every worker thread has received the same request, for a show  *)
(* without bookings, and stands before `with lock:`; no request follows.   *)
(***************************************************************************)
StressRequests ==
  [movie_id : {1}, show_time : {T("0", "1", "a")}, theater_id : {1, 2},
   group_size : {1, 2, 3, 4, 6, 7}]

InitStress ==
  /\ movies = Movies0
  /\ theaters = Theaters0
  /\ halls = HallsA
  /\ shows = ShowsA
  /\ read = NoRead
  /\ bookings = << >>
  /\ lock = FALSE
  /\ pc = [p \in Procs |-> "lock"]
  /\ \E r \in StressRequests : req = [p \in Procs |-> r]
  /\ show = [p \in Procs |-> NoShow]
  /\ seats = [p \in Procs |-> NoneSeats]
  /\ result = [p \in Procs |-> NoResult]
  /\ fs = NoFs

NextStress == \E p \in Procs : Step(p)

SpecStress == InitStress /\ [][NextStress]_vars

(***************************************************************************)
(* Requests of several sizes for the shows of one movie, so that a show    *)
(* fills up in steps: a size that no longer fits, smaller ones that do.    *)
(***************************************************************************)
SizedRequests ==
  [movie_id : {1}, show_time : {T("0", "1", "a")}, theater_id : {1, 2},
   group_size : {2, 4}]

NextSized ==
  \E p \in Procs :
    \/ \E r \in SizedRequests : Call(p, r)
    \/ Step(p)

SpecSized == Init /\ [][NextSized]_vars

(***************************************************************************)
(* find_seats on its own: every row-capacity sequence of one or two rows   *)
(* of up to FsMaxSeat seats (and the sample hall [8, 9, 7], unbooked),     *)
(* every set of booked seats, every size from 1 to FsMaxSeat + 1.          *)
(***************************************************************************)
FsRows ==
  { <<a>> : a \in 0..FsMaxSeat } \cup { <<a, b>> : <<a, b>> \in (0..FsMaxSeat) \X (0..FsMaxSeat) }

FsInputs ==
  { [rows |-> rw, booked |-> bk, size |-> sz, done |-> FALSE, ret |-> NoneSeats] :
      <<rw, bk, sz>> \in FsRows \X (SUBSET ((1..2) \X (1..FsMaxSeat))) \X (1..(FsMaxSeat + 1)) }
  \cup { [rows |-> <<8, 9, 7>>, booked |-> {}, size |-> sz, done |-> FALSE, ret |-> NoneSeats] :
           sz \in 1..(FsMaxSeat + 1) }

InitFind ==
  /\ movies = Movies0
  /\ theaters = Theaters0
  /\ halls = HallsA
  /\ shows = ShowsA
  /\ Idle
  /\ fs \in FsInputs

ApplyFind ==
  /\ ~fs.done
  /\ fs' = [fs EXCEPT !.done = TRUE, !.ret = find_seats(fs.rows, fs.booked, fs.size)]
  /\ UNCHANGED <<catalog, bookings, lock, pc, req, show, seats, result, read>>

NextFind == ApplyFind

SpecFind == InitFind /\ [][NextFind]_vars

(***************************************************************************)
(* Properties.                                                             *)
(***************************************************************************)
\* the threads inside `with lock:`
InCS == { p \in Procs : pc[p] \in {"find_show", "find_seats", "alternatives", "create", "exit"} }

BookingsOf(s) == { b \in DOMAIN bookings : bookings[b].show_id = s }

\* C1. No double-booking: in every reachable state, whatever the interleaving
\* of the book() calls, the seat sets of any two bookings of one show are
\* disjoint (and no booking lists a seat twice).
C1_NoDoubleBooking ==
  \A b1, b2 \in DOMAIN bookings :
    /\ (b1 # b2 /\ bookings[b1].show_id = bookings[b2].show_id)
         => SeatPairs(bookings[b1].seats) \cap SeatPairs(bookings[b2].seats) = {}
    /\ Cardinality(SeatPairs(bookings[b1].seats)) = Len(bookings[b1].seats)

\* two bookings of one show, next to a booking of another show
C1_Witness ==
  \E b1, b2, b3 \in DOMAIN bookings :
    /\ b1 # b2
    /\ bookings[b1].show_id = bookings[b2].show_id
    /\ bookings[b3].show_id # bookings[b1].show_id

\* in a state: one thread at most inside, and the lock held exactly then
C2_MutexState ==
  /\ Cardinality(InCS) <= 1
  /\ lock <=> InCS # {}

\* in a step: who may change the bookings
C2_MutexStep ==
  \A p \in Procs :
    (pc[p] \in {"create", "alternatives"} /\ bookings' # bookings) => pc'[p] = "exit"

\* C2. Global mutual exclusion: at most one request is inside the critical
\* section, whatever shows the requests target, and the lock is held exactly
\* then; while a request that has read its show's booked seats has not yet
\* committed, no other request changes the bookings table.
C2_MutualExclusion == [](C2_MutexState) /\ [][C2_MutexStep]_vars

\* one request is about to commit while another, for a show in another
\* theater, waits for the lock
C2_Witness ==
  \E p, q \in Procs :
    /\ pc[p] = "create"
    /\ pc[q] = "lock"
    /\ req[q].theater_id # req[p].theater_id
    /\ MatchingShows(req[q]) # {}

\* C3. Contiguity: every stored booking's seats lie in one row and are
\* consecutive seat numbers in increasing order.
C3_Contiguity ==
  \A b \in DOMAIN bookings :
    \A i \in 1..(Len(bookings[b].seats) - 1) :
      /\ bookings[b].seats[i + 1].row = bookings[b].seats[i].row
      /\ bookings[b].seats[i + 1].seat = bookings[b].seats[i].seat + 1

\* a booking of several seats that does not start at seat 1 of row 1
C3_Witness ==
  \E b \in DOMAIN bookings :
    /\ Len(bookings[b].seats) >= 2
    /\ bookings[b].seats[1].row = 2

\* the (row, start) pairs at which a block of `size` unbooked seats fits
FitStarts(rows, booked, size) ==
  UNION { { <<r, s>> : s \in { s \in 1..(rows[r] - size + 1) :
                                 \A i \in 0..(size - 1) : <<r, s + i>> \notin booked } } :
          r \in 1..Len(rows) }

\* the least pair: smallest row, then smallest start seat
Least(S) ==
  CHOOSE x \in S : \A y \in S : x[1] < y[1] \/ (x[1] = y[1] /\ x[2] <= y[2])

FirstFit(rows, booked, size) ==
  IF FitStarts(rows, booked, size) = {} THEN NoneSeats
  ELSE LET m == Least(FitStarts(rows, booked, size))
       IN  SomeSeats([i \in 1..size |-> [row |-> m[1], seat |-> m[2] + i - 1]])

\* C4. First-fit determinism: for every row-capacity sequence, booked set and
\* size >= 1, find_seats returns the block of the smallest row and, in it, of
\* the smallest start seat s in 1..C-size+1 with seats s..s+size-1 unbooked,
\* and None when there is no such block; rows [8,9,7], booked {}, size 3
\* gives row 1 seats 1, 2, 3.
C4_FirstFit ==
  fs.done =>
    /\ fs.ret = FirstFit(fs.rows, fs.booked, fs.size)
    /\ (fs.rows = <<8, 9, 7>> /\ fs.booked = {} /\ fs.size = 3)
         => fs.ret = SomeSeats(<<[row |-> 1, seat |-> 1], [row |-> 1, seat |-> 2],
                                 [row |-> 1, seat |-> 3]>>)

\* a block found in row 2, not at its first seat, although row 1 has an
\* unbooked seat (but no block)
C4_Witness ==
  /\ fs.done
  /\ fs.size >= 2
  /\ fs.ret.found
  /\ fs.ret.seats[1].row = 2
  /\ fs.ret.seats[1].seat >= 2
  /\ \E s \in 1..fs.rows[1] : <<1, s>> \notin fs.booked

\* the seats of a show that its bookings hold, and whether a row of the
\* show's hall has `size` consecutive seats outside them
SeatsTaken(s) == UNION { SeatPairs(bookings[b].seats) : b \in BookingsOf(s) }
HasFreeBlock(s, size) == FitStarts(halls[shows[s].hall_id].rows, SeatsTaken(s), size) # {}
FreeSeats(s) ==
  { <<r, n>> \in UNION { {r} \X (1..halls[shows[s].hall_id].rows[r]) :
                           r \in 1..Len(halls[shows[s].hall_id].rows) } :
      <<r, n>> \notin SeatsTaken(s) }

\* in a state: where the handler is, against the free blocks of its show
C5_State ==
  \A p \in Procs :
    req[p].group_size >= 1 =>
      /\ pc[p] = "alternatives" => ~HasFreeBlock(show[p], req[p].group_size)
      /\ pc[p] = "create" => HasFreeBlock(show[p], req[p].group_size)
      /\ (pc[p] = "exit" /\ show[p] # NoShow) =>
           /\ result[p].kind \in {"Ok", "NoSeatsAvailable"}
           /\ result[p].kind = "NoSeatsAvailable" => ~HasFreeBlock(show[p], req[p].group_size)

\* in a step: what the handler does next, against the free blocks of its show
C5_Step ==
  \A p \in Procs :
    (req[p].group_size >= 1 /\ pc'[p] # pc[p]) =>
      /\ pc[p] = "find_seats" =>
           /\ pc'[p] = IF HasFreeBlock(show[p], req[p].group_size)
                       THEN "create" ELSE "alternatives"
           /\ bookings' = bookings
      /\ pc[p] = "alternatives" =>
           /\ pc'[p] = "exit"
           /\ result'[p].kind = "NoSeatsAvailable"
           /\ bookings' = bookings
      /\ pc[p] = "create" =>
           /\ pc'[p] = "exit"
           /\ result'[p].kind = "Ok"
           /\ Len(bookings') = Len(bookings) + 1
           /\ SubSeq(bookings', 1, Len(bookings)) = bookings
           /\ bookings'[Len(bookings')].show_id = show[p]

\* C5. For an existing show and group size >= 1, book() fails with
\* NoSeatsAvailable exactly when no row of the show's hall has group-size
\* consecutive unbooked seats (the lock keeps the bookings as they were when
\* the call read them); then no booking is added; otherwise the call succeeds
\* and commits one booking, for that show.
C5_NoSeatsIffNoBlock == [](C5_State) /\ [][C5_Step]_vars

\* a request larger than every row fails although the show has enough
\* unbooked seats across its rows
C5_Witness ==
  \E p \in Procs :
    /\ pc[p] = "exit"
    /\ result[p].kind = "NoSeatsAvailable"
    /\ req[p].group_size >= 1
    /\ Cardinality(FreeSeats(show[p])) >= req[p].group_size
    /\ bookings # << >>

\* no show has the request's movie and time in the request's theater
NoMatch(r) ==
  ~ \E s \in DOMAIN shows :
      /\ shows[s].movie_id = r.movie_id
      /\ shows[s].time = r.show_time
      /\ halls[shows[s].hall_id].theater_id = r.theater_id

\* in a state: the failure against the shows of the catalogue
C6_State ==
  \A p \in Procs :
    /\ pc[p] = "exit" => (result[p].kind = "ShowNotFound" <=> NoMatch(req[p]))
    /\ pc[p] \in {"find_seats", "alternatives", "create"} => ~NoMatch(req[p])
    /\ result[p].kind = "ShowNotFound" => (show[p] = NoShow /\ seats[p] = NoneSeats)

\* in a step: the way from the show query to the failure
C6_Step ==
  \A p \in Procs :
    /\ (pc[p] = "find_show" /\ pc'[p] # pc[p] /\ NoMatch(req[p])) =>
         /\ pc'[p] = "exit"
         /\ result'[p].kind = "ShowNotFound"
         /\ bookings' = bookings
    /\ result[p].kind = "ShowNotFound" => bookings' = bookings

\* C6. book() fails with ShowNotFound exactly when no show matches the
\* requested (movie, theater, time); then the handler goes from the show
\* query straight to its exit: find_seats is not applied, no booking is
\* added and the bookings are unchanged.
C6_ShowNotFound == [](C6_State) /\ [][C6_Step]_vars

\* a ShowNotFound failure for a movie and time that are shown, in another
\* theater, while bookings exist
C6_Witness ==
  \E p \in Procs :
    /\ pc[p] = "exit"
    /\ result[p].kind = "ShowNotFound"
    /\ bookings # << >>
    /\ \E s \in DOMAIN shows :
         shows[s].movie_id = req[p].movie_id /\ shows[s].time = req[p].show_time

\* C7. Every stored booking has as many seats as the group size of the
\* request that created it, and its amount is that group size times the
\* per-seat price of the show's movie (group size 4 at price 250: 1000).
C7_SizeAndAmount ==
  /\ \A b \in DOMAIN bookings :
       /\ Len(bookings[b].seats) = bookings[b].size
       /\ bookings[b].amount = bookings[b].size * movies[shows[bookings[b].show_id].movie_id].price
       /\ (bookings[b].size = 4 /\ movies[shows[bookings[b].show_id].movie_id].price = 250)
            => bookings[b].amount = 1000
  /\ \A p \in Procs :
       (pc[p] = "exit" /\ result[p].kind = "Ok") =>
         /\ bookings[Len(bookings)].size = req[p].group_size
         /\ bookings[Len(bookings)].show_id = show[p]
         /\ Len(result[p].seats) = req[p].group_size
         /\ result[p].amount = req[p].group_size * movies[shows[show[p]].movie_id].price
         /\ result[p].amount = bookings[Len(bookings)].amount

\* bookings of 4 seats at price 250 and at price 200
C7_Witness ==
  \E b1, b2 \in DOMAIN bookings :
    /\ bookings[b1].size = 4 /\ bookings[b1].amount = 1000
    /\ bookings[b2].size = 4 /\ bookings[b2].amount = 800

\* the threads whose request has just failed with NoSeatsAvailable
Failed == { p \in Procs : pc[p] = "exit" /\ result[p].kind = "NoSeatsAvailable" }

\* the shows listed in a NoSeatsAvailable failure
Listed(p) == { result[p].alternatives[i].show_id : i \in DOMAIN result[p].alternatives }

\* the calendar date of a show time: its two date characters
DatePart(time) == <<time[1], time[2]>>

\* C8. Alternative cap and soundness: a NoSeatsAvailable failure lists at most
\* 3 alternatives, and every listed show has, in the bookings the finder
\* read, a row with group-size consecutive unbooked seats.
C8_AltCapSound ==
  \A p \in Failed :
    /\ Len(result[p].alternatives) <= 3
    /\ \A s \in Listed(p) : HasFreeBlock(s, req[p].group_size)

\* three alternatives are listed, a fourth show of the movie and date has
\* room and is cut off, and a fifth is full and left out
C8_Witness ==
  \E p \in Failed :
    /\ Len(result[p].alternatives) = 3
    /\ \E s, u \in (DOMAIN shows) \ (Listed(p) \cup {show[p]}) :
         /\ shows[s].movie_id = req[p].movie_id
         /\ shows[u].movie_id = req[p].movie_id
         /\ DatePart(shows[s].time) = DatePart(req[p].show_time)
         /\ DatePart(shows[u].time) = DatePart(req[p].show_time)
         /\ HasFreeBlock(s, req[p].group_size)
         /\ ~HasFreeBlock(u, req[p].group_size)

\* C9. Every alternative of a NoSeatsAvailable failure is a show other than
\* the requested one, of the requested movie, on the calendar date of the
\* requested show time.
C9_AltOtherShowSameDay ==
  \A p \in Failed :
    /\ show[p] \notin Listed(p)
    /\ \A s \in Listed(p) :
         /\ shows[s].movie_id = req[p].movie_id
         /\ DatePart(shows[s].time) = DatePart(req[p].show_time)

\* alternatives are listed, among them a second show of the requested movie,
\* theater and time, while a show of the movie on another date and a show of
\* another movie on the date have room
C9_Witness ==
  \E p \in Failed :
    /\ \E s \in Listed(p) : s \in MatchingShows(req[p])
    /\ \E s, u \in DOMAIN shows :
         /\ shows[s].movie_id = req[p].movie_id
         /\ DatePart(shows[s].time) # DatePart(req[p].show_time)
         /\ HasFreeBlock(s, req[p].group_size)
         /\ shows[u].movie_id # req[p].movie_id
         /\ DatePart(shows[u].time) = DatePart(req[p].show_time)
         /\ HasFreeBlock(u, req[p].group_size)

\* C10 as stated: the lock is released before the alternative search starts.
C10_SearchOutsideLock ==
  \A p \in Procs : pc[p] = "alternatives" => ~lock

\* in a state: the searching request holds the lock alone
C10_State ==
  \A p \in Procs :
    (pc[p] = "alternatives" \/ p \in Failed) => (lock /\ InCS = {p})

\* in a step: nothing else moves into the critical section or commits
C10_Step ==
  \A p \in Procs :
    pc[p] = "alternatives" =>
      /\ bookings' = bookings
      /\ \A q \in Procs : pc[q] = "lock" => pc'[q] = "lock"

\* C10, amended. The alternative search runs inside the lock: from the failed
\* allocation until the failure is raised the request holds the lock, no
\* other request is in the critical section, the requests waiting for the
\* lock keep waiting and the bookings do not change.
C10_SearchInsideLock == [](C10_State) /\ [][C10_Step]_vars

\* a request is about to search for alternatives while another, whose show
\* has room for it, waits for the lock
C10_Witness ==
  \E p, q \in Procs :
    /\ pc[p] = "alternatives"
    /\ pc[q] = "lock"
    /\ req[q].group_size >= 1
    /\ \E s \in MatchingShows(req[q]) : HasFreeBlock(s, req[q].group_size)

\* C11. Reference uniqueness: in every reachable state no two bookings have
\* the same reference, so a successful book() never commits a booking whose
\* reference equals that of an existing booking.
C11_RefsUnique ==
  \A b1, b2 \in DOMAIN bookings :
    b1 # b2 => bookings[b1].ref # bookings[b2].ref

\* C12. A book() request with group size <= 0 is rejected as invalid input
\* before the core runs: it never reaches the allocator (neither the primary
\* allocation nor the alternative search), it creates no booking and it is
\* not reported as NoSeatsAvailable.
C12_NonPositiveSizeRejected ==
  \A p \in Procs :
    (pc[p] # "idle" /\ req[p].group_size <= 0) =>
      /\ pc[p] \notin {"find_seats", "alternatives", "create"}
      /\ result[p].kind \notin {"Ok", "NoSeatsAvailable"}

\* the requests whose response is a success in the next state, not yet in this
Succeeding == { p \in Procs : result[p].kind # "Ok" /\ result'[p].kind = "Ok" }

\* in a step: the bookings table after it
C13_Step ==
  IF Succeeding = {}
  THEN bookings' = bookings
  ELSE \E p \in Succeeding :
         /\ Succeeding = {p}
         /\ Len(bookings') = Len(bookings) + 1
         /\ SubSeq(bookings', 1, Len(bookings)) = bookings
         /\ bookings'[Len(bookings')].show_id = show[p]
         /\ show[p] \in MatchingShows(req[p])
         /\ \A s \in DOMAIN shows \ {show[p]} :
              get_booked_seats(bookings', s) = get_booked_seats(bookings, s)

\* C13. Bookings are append-only: a successful book() adds exactly one
\* booking, for the show it resolved, and leaves the booked seats of every
\* other show as they were; every other step (a failing book(), a storage
\* error, the search for alternatives, get_booking, hall_layout) leaves the
\* bookings table unchanged, so no booking is ever modified or removed.
C13_AppendOnly == [][C13_Step]_vars

\* bookings of two shows exist, a booking failed for lack of seats, and a
\* read-only route has answered from the bookings
C13_Witness ==
  /\ \E b1, b2 \in DOMAIN bookings : bookings[b1].show_id # bookings[b2].show_id
  /\ \E p \in Procs : result[p].kind = "NoSeatsAvailable"
  /\ read # NoRead
  /\ read.response.status = 200

\* in a state: a request that met a storage error is on its way out of
\* `with lock:` with the failure as its response
C14_State ==
  \A p \in Procs :
    result[p].kind = "StorageFailure" => (pc[p] = "exit" /\ lock /\ InCS = {p})

\* in a step: the persist step fails; the failure is returned
C14_Step ==
  \A p \in Procs :
    /\ (pc[p] = "create" /\ result'[p].kind = "StorageFailure") =>
         /\ bookings' = bookings
         /\ SeatPairs(seats[p].seats) \cap get_booked_seats(bookings', show[p]) = {}
         /\ find_seats(RowsOf(show[p]), get_booked_seats(bookings', show[p]),
                       req[p].group_size) = seats[p]
    /\ result[p].kind = "StorageFailure" =>
         /\ bookings' = bookings
         /\ \/ result'[p] = result[p] /\ pc'[p] = "exit" /\ lock'
            \/ pc'[p] = "idle" /\ ~lock'

\* C14. No partial commit on storage failure: when the persist step of
\* book() fails after the seat block was computed, the bookings table is as
\* before, the computed seats are still free (the same request would be
\* given the same block again), the request leaves with the failure as its
\* response, never a success, and the lock is released when it leaves.
C14_NoPartialCommit == [](C14_State) /\ [][C14_Step]_vars

\* the persist step of a request failed while the table already held a
\* booking of the same show
C14_Witness ==
  \E p \in Procs :
    /\ result[p].kind = "StorageFailure"
    /\ Truthy(seats[p])
    /\ BookingsOf(show[p]) # {}

\* the responses book_seats can end with
Outcomes == {"Ok", "ShowNotFound", "NoSeatsAvailable", "StorageFailure"}

\* a request has its response and is leaving `with lock:`
Returning(p) == pc[p] = "exit" /\ result[p].kind \in Outcomes

\* in a state: while requests are being served one of them can take a step
C15_NoDeadlock == InFlight # {} => \E p \in Procs : ENABLED Step(p)

\* in a step: a request that returns leaves the lock free
C15_Step ==
  \A p \in Procs : (pc[p] # "idle" /\ pc'[p] = "idle") => (Returning(p) /\ ~lock')

RECURSIVE SumFloor(_, _)
SumFloor(rows, k) ==
  IF rows = << >> THEN 0 ELSE (Head(rows) \div k) + SumFloor(Tail(rows), k)

Smaller(a, b) == IF a <= b THEN a ELSE b

\* the calls of the burst that have returned
Returned == Procs \ InFlight

\* in a state: the successes so far are the bookings, all for the show and
\* the size asked; there are never more than the rows hold, and a call has
\* failed only when they hold no more
C16_State ==
  \A p \in InFlight :
    LET k == req[p].group_size
        s == CHOOSE s \in MatchingShows(req[p]) : TRUE
        cap == SumFloor(RowsOf(s), k)
    IN  /\ \A b \in DOMAIN bookings : bookings[b].show_id = s /\ Len(bookings[b].seats) = k
        /\ Len(bookings) <= Smaller(NumProcs, cap)
        /\ cap <= SumFloor(RowsOf(s), 1) \div k
        /\ Len(bookings) <= Cardinality(Returned) + 1
        /\ Cardinality(Returned) > Len(bookings) => Len(bookings) = cap
        /\ result[p].kind \in {"None", "Ok", "NoSeatsAvailable"}
        /\ result[p].kind = "NoSeatsAvailable" => Len(bookings) = cap
        /\ \A b1, b2 \in DOMAIN bookings :
             b1 # b2 => SeatPairs(bookings[b1].seats) \cap SeatPairs(bookings[b2].seats) = {}

\* in a step: a failing call adds no booking, and when the last call of the
\* burst returns the number of bookings is min(N, sum of floor(capacity / k))
C16_Step ==
  \A p \in InFlight :
    /\ result'[p].kind = "NoSeatsAvailable" => bookings' = bookings
    /\ (InFlight = {p} /\ pc'[p] = "idle") =>
         Len(bookings') =
           Smaller(NumProcs,
                   SumFloor(RowsOf(CHOOSE s \in MatchingShows(req[p]) : TRUE),
                            req[p].group_size))

\* C16. Concurrency stress: N concurrent book() calls of one size k >= 1 on
\* one show without bookings give, in every interleaving,
\* min(N, sum over the rows of floor(row capacity / k)) successes, which is
\* at most floor(total capacity / k); every other call fails with
\* NoSeatsAvailable and adds no booking, and the bookings are pairwise
\* disjoint in every intermediate state.
C16_Stress == [](C16_State) /\ [][C16_Step]_vars

\* the burst is over: some calls succeeded and some failed
C16_Witness ==
  /\ InFlight = {}
  /\ Len(bookings) >= 1
  /\ Len(bookings) < NumProcs

\* in a step: get_booking answers
C17_Step ==
  (read' # read /\ read'.route = "get_booking") =>
    /\ UNCHANGED <<catalog, bookings, lock, pc, req, show, seats, result, fs>>
    /\ read'.response = get_booking(bookings', read'.ref)
    /\ \A b \in DOMAIN bookings :
         bookings[b].ref = read'.ref =>
           /\ read'.response.kind = "Booking"
           /\ read'.response.seats = bookings[b].seats
           /\ read'.response.amount = bookings[b].amount
    /\ (\A b \in DOMAIN bookings : bookings[b].ref # read'.ref) =>
         read'.response.kind = "NotFound"

\* C17. Idempotent read: a lookup by reference changes no state and its
\* answer depends on the bookings table and the reference alone, so a
\* second call with no commit in between answers the same; for the
\* reference returned by a successful book() the answer carries that
\* booking's seats and amount, and for a reference of no booking it is
\* NotFound.
C17_IdempotentRead == [][C17_Step]_vars

\* the shows of the requested movie on the requested date
SameMovieAndDate(p) ==
  { s \in DOMAIN shows :
      /\ shows[s].movie_id = req[p].movie_id
      /\ DatePart(shows[s].time) = DatePart(req[p].show_time) }

\* those of them with a block for the group
Fitting(p) == { s \in SameMovieAndDate(p) : HasFreeBlock(s, req[p].group_size) }

Sizes == { r.group_size : r \in SizedRequests }

\* a book() call of size k on show s has failed for lack of seats
FailedAt(s, k) == \E p \in Failed : show[p] = s /\ req[p].group_size = k

\* every call on show s of size k or more that has its response has failed
\* for lack of seats
FailsFrom(s, k) ==
  \A q \in Procs :
    (pc[q] = "exit" /\ show[q] = s /\ req[q].group_size >= k) =>
      result[q].kind = "NoSeatsAvailable"

\* C19. Failure is monotone: once a book() call of size k >= 1 on a show has
\* failed with NoSeatsAvailable, every later book() call on that show with
\* size k or more fails with NoSeatsAvailable as well.
C19_FailureMonotone ==
  \A s \in DOMAIN ShowsA : \A k \in Sizes :
    [](FailedAt(s, k) => [](FailsFrom(s, k)))

\* a call of size 3 or more fails on a show that holds a booking of 4 and a
\* later booking of 2: sizes of 3 or more have not fitted since the first
C19_Witness ==
  \E p \in Failed :
    /\ req[p].group_size >= 3
    /\ \E b1, b2 \in BookingsOf(show[p]) :
         /\ b1 < b2
         /\ bookings[b1].size = 4
         /\ bookings[b2].size = 2

\* the row capacities of the hall in which a show plays
HallRows(s) == halls[shows[s].hall_id].rows

\* C20. Seats stay inside the hall: every seat of every booking lies in a
\* row of the hall of the booking's show, 1 <= row <= number of rows, at a
\* seat number of that row, 1 <= seat <= row capacity; so the number of
\* booked seats of a show is at most the total capacity of its hall.
C20_SeatsInsideHall ==
  /\ \A b \in DOMAIN bookings : \A i \in DOMAIN bookings[b].seats :
       LET rows == HallRows(bookings[b].show_id)
           at == bookings[b].seats[i]
       IN  /\ 1 <= at.row /\ at.row <= Len(rows)
           /\ 1 <= at.seat /\ at.seat <= rows[at.row]
  /\ \A s \in DOMAIN shows :
       Cardinality(get_booked_seats(bookings, s)) <= SumFloor(HallRows(s), 1)

\* the first row of a show is booked up to its last seat and a booking lies
\* in the last row of the hall, which has several rows
C20_Witness ==
  \E s \in DOMAIN shows :
    /\ Len(HallRows(s)) >= 2
    /\ <<1, HallRows(s)[1]>> \in get_booked_seats(bookings, s)
    /\ \E n \in 1..HallRows(s)[Len(HallRows(s))] :
         <<Len(HallRows(s)), n>> \in get_booked_seats(bookings, s)

====
